---------------------------- MODULE Spec2Model ----------------------------
(***************************************************************************)
(* The POST /api/ocr request pipeline of the OCR-to-Markdown server, in    *)
(* its two deployment variants:                                            *)
(*   "inline"   src/server.js         image sent inline as a base64 URL    *)
(*   "tempfile" src/unnamed/part_000  image staged in /tmp, path sent      *)
(* Every action is one run of the handler between two suspension points    *)
(* (awaits).  Strings that the code takes apart (file names, keys, paths)  *)
(* are sequences of one-character strings; the fixed prefixes and the      *)
(* decimal timestamp are single tokens that contain no '.'.                *)
(* GET /health and the static file serving read and write none of this     *)
(* state and are left out.  An awaited call takes effect when it settles:  *)
(* the object or file is there from the step in which the await resolves.  *)
(***************************************************************************)
EXTENDS Integers, Sequences, FiniteSets, TLC

\* ------------------------------------------------------------- bounds
MaxClock == 1       \* Date.now() ranges over 0..MaxClock
MaxNameLen == 4     \* longest original file name of the key derivation check

\* a request and one request served concurrently with it; interference between
\* requests goes through one shared key or path, that is, it is pairwise
Reqs == {1, 2}
Times == 0..MaxClock

\* ------------------------------------------------------------- inputs
Variants == {"inline", "tempfile"}
\* process.env values; "" stands for an unset (falsy) variable
ApiKeys == {"", "key"}
BucketNames == {"", "bucket"}
\* original file names of the uploads: a.d, a (no extension)
FileNames == {<<"a", ".", "d">>, <<"a">>}
MimeTypes == {"image/png", "image/jpeg"}
NameChars == {"a", ".", "m", "d"}
\* error.message of a rejected inference call
ErrMsgs == {"RateLimited", ""}
\* what the chat completion resolves to in server.js
Shapes == {"content", "emptyContent", "undefinedContent", "noMessage", "noChoices"}
\* what ocr() of llama-ocr resolves to in part_000
OcrValues == {"content", "emptyContent", "undefinedContent"}
Title == "# Title"

NoFile == [present |-> FALSE, originalname |-> <<>>, mimetype |-> "", buffer |-> 0]
upload(n, m) == [present |-> TRUE, originalname |-> n, mimetype |-> m, buffer |-> 0]
\* req.file as multer leaves it: absent, or one uploaded file
Files == {NoFile} \cup {upload(n, m) : n \in FileNames, m \in MimeTypes}
\* every file name of at most MaxNameLen characters
AllNames == UNION {[1..n -> NameChars] : n \in 0..MaxNameLen}
WideFiles == {upload(n, "image/png") : n \in AllNames}

\* ------------------------------------------------------------- strings
MdExt == <<".", "m", "d">>

\* /\.[^.]+$/ matched at position i: a '.', then one or more non-'.' up to the end
matchAt(s, i) ==
    /\ s[i] = "."
    /\ i < Len(s)
    /\ \A j \in (i + 1)..Len(s) : s[j] # "."

\* String.prototype.replace with a non-global regex: the leftmost match is replaced
replaceExt(s) ==
    LET M == {i \in 1..Len(s) : matchAt(s, i)}
    IN  IF M = {} THEN s
        ELSE LET i == CHOOSE k \in M : \A l \in M : k <= l
             IN  SubSeq(s, 1, i - 1) \o MdExt

\* `uploads/${timestamp}-${req.file.originalname}`
s3KeyOf(timestamp, originalname) ==
    <<"uploads/", ToString(timestamp), "-">> \o originalname

\* `/tmp/${timestamp}-${req.file.originalname}`
tempPathOf(timestamp, originalname) ==
    <<"/tmp/", ToString(timestamp), "-">> \o originalname

\* mutant: ".md" is appended to the key, the extension kept
mdKeyAppended(s3Key) == s3Key \o MdExt

\* s3Key.replace(/\.[^.]+$/, '.md')
mdKeyOf(s3Key) == replaceExt(s3Key)


\* ------------------------------------------------------------- JS values
Undefined == [defined |-> FALSE, str |-> ""]
Str(s) == [defined |-> TRUE, str |-> s]

\* v || d for a string-or-undefined v: undefined and "" are falsy
orElse(v, d) == IF v.defined /\ v.str # "" THEN v.str ELSE d

\* response.choices[0]?.message?.content
contentOf(shape) ==
    CASE shape = "content" -> Str(Title)
      [] shape = "emptyContent" -> Str("")
      [] OTHER -> Undefined

\* the value ocr() resolves to
ocrValueOf(shape) ==
    CASE shape = "content" -> Str(Title)
      [] shape = "emptyContent" -> Str("")
      [] OTHER -> Undefined

\* ((Date.now() - startTime) / 1000).toFixed(2), as <<seconds, hundredths>>;
\* elapsed times within the clock bound are below 5 ms, where no rounding tie occurs
processingTimeOf(end, startTime) ==
    LET centis == ((end - startTime) + 5) \div 10
    IN  <<centis \div 100, centis % 100>>

\* ------------------------------------------------------------- envelopes
NoData ==
    [inputFile |-> <<>>, outputFile |-> <<>>, markdown |-> "", bucket |-> "",
     processingTime |-> <<0, 0>>]
NoResponse == [status |-> 0, success |-> FALSE, error |-> "", data |-> NoData]

\* res.status(status).json({ success: false, error: message })
failure(status, message) ==
    [status |-> status, success |-> FALSE, error |-> message, data |-> NoData]

\* res.json({ success: true, message: ..., data: {...} })
success(s3Key, mdKey, markdown, bucketName, processingTime) ==
    [status |-> 200, success |-> TRUE, error |-> "",
     data |-> [inputFile |-> s3Key, outputFile |-> mdKey, markdown |-> markdown,
               bucket |-> bucketName, processingTime |-> processingTime]]

\* mutant: the caller is always given the generic text
catchMessageGeneric(message) == "Failed to process image"

\* error.message || 'Failed to process image'
catchMessage(message) == IF message # "" THEN message ELSE "Failed to process image"

\* the body of a stored object: the bytes of a request's upload, or a text
Bytes(r) == [bytes |-> r, text |-> ""]
Text(t) == [bytes |-> 0, text |-> t]

\* ------------------------------------------------------------- state
VARIABLES
    variant,    \* which of the two server files is deployed
    env,        \* process.env: TOGETHER_API_KEY, BUCKET_NAME
    now,        \* Date.now()
    rq,         \* per request: the handler's locals, position and response
    s3,         \* the bucket: key -> [body, contentType]
    tmpfs       \* /tmp: path -> bytes

vars == <<variant, env, now, rq, s3, tmpfs>>

IdleReq ==
    [pc |-> "Idle", file |-> NoFile, timestamp |-> -1, tempPath |-> <<>>,
     s3Key |-> <<>>, mdKey |-> <<>>, startTime |-> -1, markdown |-> "",
     processingTime |-> <<0, 0>>,
     ocrRead |-> 0, infResult |-> "", infError |-> "",
     writes |-> <<>>, events |-> <<>>, sent |-> 0, res |-> NoResponse]

Init ==
    /\ variant \in Variants
    /\ env \in [TOGETHER_API_KEY : ApiKeys, BUCKET_NAME : BucketNames]
    /\ now = 0
    /\ rq = [r \in Reqs |-> IdleReq]
    /\ s3 = <<>>
    /\ tmpfs = <<>>

\* the request record after res.json(...) / res.status(...).json(...)
respond(q, response) ==
    [q EXCEPT !.pc = "Done", !.res = response, !.sent = @ + 1]

\* mutant: the rejection is logged and swallowed, the handler stays where it was
catchSwallowed(q, call, message) ==
    [q EXCEPT !.events = Append(@, <<"throw", call>>)]

\* the catch block: res.status(500).json({ error: error.message || ... })
catch(q, call, message) ==
    respond([q EXCEPT !.events = Append(@, <<"throw", call>>)],
            failure(500, catchMessage(message)))

\* an awaited call is issued / has resolved
issued(q, call) == [q EXCEPT !.events = Append(@, <<"call", call>>)]
resolved(q, call) == [q EXCEPT !.events = Append(@, <<"ok", call>>)]

\* s3Client.send(PutObjectCommand) resolved: the object is in the bucket
putObject(key, content, contentType) ==
    (key :> [body |-> content, contentType |-> contentType]) @@ s3

\* the clock advances between any two steps
Tick ==
    /\ now < MaxClock
    /\ now' = now + 1
    /\ UNCHANGED <<variant, env, rq, s3, tmpfs>>


\* mutant: the configuration is checked before the file
validateFileLast(file, e) ==
    IF e.TOGETHER_API_KEY = ""
    THEN failure(500, "Server configuration error: TOGETHER_API_KEY not set")
    ELSE IF e.BUCKET_NAME = ""
    THEN failure(500, "Server configuration error: BUCKET_NAME not set")
    ELSE IF ~file.present
    THEN failure(400, "No image file provided. Please upload an image.")
    ELSE NoResponse

\* mutant: the bucket name is checked before the credential
validateBucketFirst(file, e) ==
    IF ~file.present
    THEN failure(400, "No image file provided. Please upload an image.")
    ELSE IF e.BUCKET_NAME = ""
    THEN failure(500, "Server configuration error: BUCKET_NAME not set")
    ELSE IF e.TOGETHER_API_KEY = ""
    THEN failure(500, "Server configuration error: TOGETHER_API_KEY not set")
    ELSE NoResponse

\* lines 58-79 (server.js) / 54-75 (part_000): the three checks, in order;
\* NoResponse when all pass
validate(file, e) ==
    IF ~file.present
    THEN failure(400, "No image file provided. Please upload an image.")
    ELSE IF e.TOGETHER_API_KEY = ""
    THEN failure(500, "Server configuration error: TOGETHER_API_KEY not set")
    ELSE IF e.BUCKET_NAME = ""
    THEN failure(500, "Server configuration error: BUCKET_NAME not set")
    ELSE NoResponse

\* the image upload as issued: s3Key derived, uploadToS3 called
startImageUpload(q) ==
    issued([q EXCEPT !.s3Key = s3KeyOf(q.timestamp, q.file.originalname)],
           "putImage")

\* POST /api/ocr arrives with multipart body f; the handler runs to its first await
HandleRequest(r, f) ==
    /\ rq[r].pc = "Idle"
    /\ \A p \in Reqs : p < r => rq[p].pc # "Idle"   \* requests are numbered as they arrive
    /\ LET q0 == [rq[r] EXCEPT !.file = [f EXCEPT !.buffer = IF f.present THEN r ELSE 0]]
           v == validate(q0.file, env)
           q1 == [q0 EXCEPT !.timestamp = now]
       IN  rq' = [rq EXCEPT ![r] =
                IF v.status # 0 THEN respond(q0, v)
                ELSE IF variant = "inline"
                THEN [startImageUpload(q1) EXCEPT !.pc = "UploadingImage"]
                ELSE [issued([q1 EXCEPT !.tempPath =
                                  tempPathOf(q1.timestamp, q1.file.originalname)],
                             "writeFile")
                      EXCEPT !.pc = "WritingTemp"]]
    /\ UNCHANGED <<variant, env, now, s3, tmpfs>>

\* part_000 line 82: fs.writeFile(tempPath, req.file.buffer) settles
WriteFileReturns(r, ok) ==
    /\ rq[r].pc = "WritingTemp"
    /\ IF ok
       THEN /\ tmpfs' = (rq[r].tempPath :> rq[r].file.buffer) @@ tmpfs
            /\ rq' = [rq EXCEPT ![r] =
                 [startImageUpload(resolved(@, "writeFile"))
                  EXCEPT !.pc = "UploadingImage"]]
       ELSE /\ tmpfs' = tmpfs
            /\ rq' = [rq EXCEPT ![r] = catch(@, "writeFile", "EACCES")]
    /\ UNCHANGED <<variant, env, now, s3>>

\* the inference call as issued after the image upload
startInference(q) ==
    LET q1 == issued([q EXCEPT !.startTime = now], "infer")
    IN  IF variant = "inline" THEN q1
        ELSE \* ocr({filePath: tempPath}) reads the file when it is called
             [q1 EXCEPT !.ocrRead =
                 IF q.tempPath \in DOMAIN tmpfs THEN tmpfs[q.tempPath] ELSE -1]

\* the first uploadToS3 (image) settles
ImageUploadReturns(r, ok) ==
    /\ rq[r].pc = "UploadingImage"
    /\ IF ok
       THEN /\ s3' = putObject(rq[r].s3Key, Bytes(rq[r].file.buffer), rq[r].file.mimetype)
            /\ rq' = [rq EXCEPT ![r] =
                 [startInference(
                     [resolved(@, "putImage") EXCEPT !.writes =
                         Append(@, [key |-> rq[r].s3Key,
                                    contentType |-> rq[r].file.mimetype,
                                    body |-> Bytes(rq[r].file.buffer)])])
                  EXCEPT !.pc = "Invoking"]]
       ELSE /\ s3' = s3
            /\ rq' = [rq EXCEPT ![r] = catch(@, "putImage", "S3Error")]
    /\ UNCHANGED <<variant, env, now, tmpfs>>


\* how the awaited inference call can settle
InfOutcomes ==
    [ok : {TRUE}, shape : Shapes, message : {""}] \cup
    [ok : {FALSE}, shape : {""}, message : ErrMsgs \cup {"ENOENT"}]

\* the outcomes the deployed variant can see for request record q
canSettle(q, out) ==
    IF variant = "inline"
    THEN out.message # "ENOENT"
    ELSE IF q.ocrRead = -1
    THEN ~out.ok /\ out.message = "ENOENT"      \* the staged file was gone
    ELSE out.message # "ENOENT" /\ (out.ok => out.shape \in OcrValues)

\* the markdown the handler holds after the call resolved:
\*   server.js:120  response.choices[0]?.message?.content || 'No text extracted'
\*   part_000:93    the value of ocr() itself
markdownOf(shape) ==
    IF variant = "inline"
    THEN Str(orElse(contentOf(shape), "No text extracted"))
    ELSE ocrValueOf(shape)

\* the markdown upload as issued: mdKey derived, uploadToS3 called
startMarkdownUpload(q) ==
    issued([q EXCEPT !.mdKey = mdKeyOf(q.s3Key)], "putMarkdown")

\* the awaited inference call settles
InferenceReturns(r, out) ==
    /\ rq[r].pc = "Invoking"
    /\ out \in InfOutcomes
    /\ canSettle(rq[r], out)
    /\ rq' = [rq EXCEPT ![r] =
         IF ~out.ok
         THEN catch([@ EXCEPT !.infResult = "threw", !.infError = out.message],
                    "infer", out.message)
         ELSE LET m == markdownOf(out.shape)
                  q1 == [resolved(@, "infer") EXCEPT
                            !.infResult = out.shape,
                            !.processingTime = processingTimeOf(now, rq[r].startTime)]
              IN  IF ~m.defined
                  THEN \* markdown.length on undefined
                       catch(q1, "markdown.length",
                             "Cannot read properties of undefined (reading 'length')")
                  ELSE [startMarkdownUpload([q1 EXCEPT !.markdown = m.str])
                        EXCEPT !.pc = "UploadingMarkdown"]]
    /\ UNCHANGED <<variant, env, now, s3, tmpfs>>

\* the success envelope built from the handler's locals
successOf(q) ==
    success(q.s3Key, q.mdKey, q.markdown, env.BUCKET_NAME, q.processingTime)

\* mutant: a rejected markdown upload is swallowed and the handler goes on
afterMarkdownUploadSwallowed(q, ok) ==
    LET q1 == IF ok
              THEN [resolved(q, "putMarkdown") EXCEPT !.writes =
                       Append(@, [key |-> q.mdKey, contentType |-> "text/markdown",
                                  body |-> Text(q.markdown)])]
              ELSE q
    IN  IF variant = "inline"
        THEN respond(q1, successOf(q1))
        ELSE [issued(q1, "unlink") EXCEPT !.pc = "Unlinking"]

\* the handler from the settled markdown upload to its next await or its response
afterMarkdownUpload(q, ok) ==
    IF ok
    THEN LET q1 == [resolved(q, "putMarkdown") EXCEPT !.writes =
                       Append(@, [key |-> q.mdKey, contentType |-> "text/markdown",
                                  body |-> Text(q.markdown)])]
         IN  IF variant = "inline"
             THEN respond(q1, successOf(q1))
             ELSE [issued(q1, "unlink") EXCEPT !.pc = "Unlinking"]
    ELSE catch(q, "putMarkdown", "S3Error")

\* the second uploadToS3 (markdown) settles
MarkdownUploadReturns(r, ok) ==
    /\ rq[r].pc = "UploadingMarkdown"
    /\ s3' = IF ok
             THEN putObject(rq[r].mdKey, Text(rq[r].markdown), "text/markdown")
             ELSE s3
    /\ rq' = [rq EXCEPT ![r] = afterMarkdownUpload(@, ok)]
    /\ UNCHANGED <<variant, env, now, tmpfs>>

\* part_000 line 106: fs.unlink(tempPath).catch(() => {}) settles
UnlinkReturns(r, ok) ==
    /\ rq[r].pc = "Unlinking"
    /\ ok => rq[r].tempPath \in DOMAIN tmpfs
    /\ IF ok
       THEN /\ tmpfs' = [p \in DOMAIN tmpfs \ {rq[r].tempPath} |-> tmpfs[p]]
            /\ rq' = [rq EXCEPT ![r] =
                 respond(resolved(@, "unlink"), successOf(@))]
       ELSE /\ tmpfs' = tmpfs
            /\ rq' = [rq EXCEPT ![r] =
                 respond([@ EXCEPT !.events = Append(@, <<"swallowed", "unlink">>)],
                         successOf(@))]
    /\ UNCHANGED <<variant, env, now, s3>>

Next ==
    \/ Tick
    \/ \E r \in Reqs, f \in Files : HandleRequest(r, f)
    \/ \E r \in Reqs, ok \in BOOLEAN : WriteFileReturns(r, ok)
    \/ \E r \in Reqs, ok \in BOOLEAN : ImageUploadReturns(r, ok)
    \/ \E r \in Reqs, out \in InfOutcomes : InferenceReturns(r, out)
    \/ \E r \in Reqs, ok \in BOOLEAN : MarkdownUploadReturns(r, ok)
    \/ \E r \in Reqs, ok \in BOOLEAN : UnlinkReturns(r, ok)

Spec == Init /\ [][Next]_vars


\* ------------------------------------------------------------------------
\* The key derivation over every file name: one request, every call succeeds
InitKey ==
    /\ variant \in Variants
    /\ env = [TOGETHER_API_KEY |-> "key", BUCKET_NAME |-> "bucket"]
    /\ now \in Times
    /\ rq = [r \in Reqs |-> IdleReq]
    /\ s3 = <<>>
    /\ tmpfs = <<>>

NextKey ==
    \/ \E f \in WideFiles : HandleRequest(1, f)
    \/ WriteFileReturns(1, TRUE)
    \/ ImageUploadReturns(1, TRUE)
    \/ InferenceReturns(1, [ok |-> TRUE, shape |-> "content", message |-> ""])
    \/ MarkdownUploadReturns(1, TRUE)
    \/ UnlinkReturns(1, TRUE)

SpecKey == InitKey /\ [][NextKey]_vars

\* ------------------------------------------------------------------------
\* Vocabulary of the properties
Done(r) == rq[r].pc = "Done"
Has(r, e) == \E i \in 1..Len(rq[r].events) : rq[r].events[i] = e
Called(r, call) == Has(r, <<"call", call>>)
Threw(r, call) == Has(r, <<"throw", call>>)
KeyMissing == env.TOGETHER_API_KEY = ""
BucketMissing == env.BUCKET_NAME = ""
MarkdownWritten(r) ==
    \E i \in 1..Len(rq[r].writes) : rq[r].writes[i].contentType = "text/markdown"
InferenceSucceeded(r) == rq[r].infResult \notin {"", "threw"}
IsFailure(res, status) ==
    /\ res.status = status
    /\ res.success = FALSE
    /\ res.error # ""
    /\ res.data = NoData
EndsWith(s, t) ==
    /\ Len(s) >= Len(t)
    /\ SubSeq(s, Len(s) - Len(t) + 1, Len(s)) = t

\* key with its final extension (the text from the last '.', when at least one
\* character follows it) replaced by ".md"; a key without one is left as it is
ExtReplaced(k) ==
    LET D == {i \in 1..Len(k) : k[i] = "."}
    IN  IF D = {} THEN k
        ELSE LET last == CHOOSE i \in D : \A j \in D : j <= i
             IN  IF last = Len(k) THEN k ELSE SubSeq(k, 1, last - 1) \o MdExt

\* C1: a request without an image file is answered 400 with a failure envelope,
\* whatever the configuration, and causes no object-store write, no inference
\* call and no temp-file write.
C1_MissingFile ==
    \A r \in Reqs :
        (rq[r].pc # "Idle" /\ ~rq[r].file.present) =>
            /\ Done(r)
            /\ rq[r].sent = 1
            /\ IsFailure(rq[r].res, 400)
            /\ rq[r].events = <<>>
            /\ rq[r].writes = <<>>
            /\ rq[r].tempPath = <<>>

C1_Witness ==
    \E r \in Reqs :
        /\ Done(r) /\ ~rq[r].file.present /\ rq[r].res.status = 400
        /\ KeyMissing /\ BucketMissing

\* C2: a request with an image file, when the credential or the bucket name is
\* absent, is answered 500 with a failure envelope and causes no object-store
\* write, no inference call and no temp-file write; the credential error is the
\* one surfaced when both are absent.
C2_MissingConfig ==
    \A r \in Reqs :
        (rq[r].pc # "Idle" /\ rq[r].file.present /\ (KeyMissing \/ BucketMissing)) =>
            /\ Done(r)
            /\ rq[r].sent = 1
            /\ IsFailure(rq[r].res, 500)
            /\ rq[r].res.error =
                 IF KeyMissing
                 THEN "Server configuration error: TOGETHER_API_KEY not set"
                 ELSE "Server configuration error: BUCKET_NAME not set"
            /\ rq[r].events = <<>>
            /\ rq[r].writes = <<>>
            /\ rq[r].tempPath = <<>>
            /\ s3 = <<>>
            /\ tmpfs = <<>>

C2_Witness ==
    \E r \in Reqs :
        /\ Done(r) /\ rq[r].file.present /\ KeyMissing /\ BucketMissing
        /\ rq[r].res.status = 500

\* C3: a request that ends with the success envelope performed exactly two
\* object-store writes: the image under uploads/<timestamp>-<originalFilename>
\* with the file's declared content type, then the markdown as text/markdown
\* under the image key with its final extension replaced by ".md" (a key that
\* has no final extension is used as it is); inputFile and outputFile are these
\* two keys.
C3_TwoWrites ==
    \A r \in Reqs :
        (Done(r) /\ rq[r].res.success) =>
            LET w == rq[r].writes
            IN  /\ Len(w) = 2
                /\ \E t \in Times :
                     w[1].key = <<"uploads/", ToString(t), "-">> \o rq[r].file.originalname
                /\ w[1].contentType = rq[r].file.mimetype
                /\ w[1].body = Bytes(rq[r].file.buffer)
                /\ w[2].contentType = "text/markdown"
                /\ w[2].key = ExtReplaced(w[1].key)
                /\ rq[r].res.data.inputFile = w[1].key
                /\ rq[r].res.data.outputFile = w[2].key

C3_Witness ==
    \E r \in Reqs :
        /\ Done(r) /\ rq[r].res.success
        /\ rq[r].file.originalname = <<"a", ".", "d">>
        /\ rq[r].res.data.outputFile = <<"uploads/", "1", "-", "a", ".", "m", "d">>


Placeholder == "No text extracted"
NoContent(r) ==
    rq[r].infResult \in {"emptyContent", "undefinedContent", "noMessage", "noChoices"}

\* C4: when the inference call returns without error but with no textual
\* content, the request completes as a success (its markdown upload not
\* failing): the markdown object is written with the content "No text
\* extracted" and the envelope's markdown field is "No text extracted", in both
\* deployment variants.
C4_PlaceholderBothVariants ==
    \A r \in Reqs :
        (Done(r) /\ NoContent(r) /\ ~Threw(r, "putMarkdown")) =>
            /\ rq[r].res.success
            /\ rq[r].res.data.markdown = Placeholder
            /\ \E i \in 1..Len(rq[r].writes) :
                 /\ rq[r].writes[i].contentType = "text/markdown"
                 /\ rq[r].writes[i].body = Text(Placeholder)

\* C5 as claimed: a failed inference call gives a 500 failure envelope whose
\* error is the original error's text, leaves the image object in storage and
\* writes no markdown object.
C5_OriginalErrorText ==
    \A r \in Reqs :
        rq[r].infResult = "threw" =>
            /\ Done(r)
            /\ IsFailure(rq[r].res, 500)
            /\ rq[r].res.error = rq[r].infError
            /\ Len(rq[r].writes) = 1
            /\ rq[r].writes[1].key \in DOMAIN s3
            /\ ~MarkdownWritten(r)

\* C5 (amended): a failed inference call gives a 500 failure envelope whose error
\* is the original error's text when that text is not empty and "Failed to
\* process image" when it is; the image object written earlier stays in storage
\* and no markdown object is written for the request.
C5_InferenceFailure ==
    \A r \in Reqs :
        rq[r].infResult = "threw" =>
            /\ Done(r)
            /\ rq[r].sent = 1
            /\ IsFailure(rq[r].res, 500)
            /\ rq[r].res.error =
                 IF rq[r].infError # "" THEN rq[r].infError
                 ELSE "Failed to process image"
            /\ Len(rq[r].writes) = 1
            /\ rq[r].writes[1].key = rq[r].s3Key
            /\ rq[r].writes[1].key \in DOMAIN s3
            /\ ~MarkdownWritten(r)
            /\ ~Called(r, "putMarkdown")

C5_Witness ==
    \E r \in Reqs :
        /\ Done(r) /\ rq[r].infResult = "threw" /\ rq[r].infError = "RateLimited"
        /\ rq[r].res.error = "RateLimited"
        /\ rq[r].s3Key \in DOMAIN s3

\* C6 as claimed: in every terminal state a markdown object has been written for
\* the request if and only if its inference call succeeded.
C6_MarkdownIffInference ==
    \A r \in Reqs : Done(r) => (MarkdownWritten(r) <=> InferenceSucceeded(r))

\* C6 (amended): in every terminal state a markdown object has been written for
\* the request only if its inference call succeeded, and if and only if the
\* request ended with the success envelope; inference success alone does not
\* imply it, since a request that fails after the inference call (its markdown
\* upload rejected, or a throw before that upload) ends with a 500 failure
\* envelope and no markdown object.
C6_MarkdownOnlyAfterInference ==
    \A r \in Reqs :
        /\ MarkdownWritten(r) => InferenceSucceeded(r)
        /\ Done(r) =>
            /\ MarkdownWritten(r) <=> rq[r].res.success
            /\ (InferenceSucceeded(r) /\ ~MarkdownWritten(r)) =>
                 /\ IsFailure(rq[r].res, 500)
                 /\ Threw(r, "putMarkdown") \/ Threw(r, "markdown.length")

C6_Witness ==
    \E r \in Reqs :
        /\ Done(r) /\ InferenceSucceeded(r) /\ ~MarkdownWritten(r)
        /\ Threw(r, "putMarkdown")

\* C7: in the temp-file variant every temporary file written for a request has
\* had its deletion attempted by the time the request is in its terminal state,
\* on the success path and on every failure path; a failing deletion is
\* swallowed and does not change the response.
C7_TempFileAlwaysDeleted ==
    \A r \in Reqs :
        /\ (Done(r) /\ Has(r, <<"ok", "writeFile">>)) => Called(r, "unlink")
        /\ (Done(r) /\ Has(r, <<"swallowed", "unlink">>)) => rq[r].res.success


ExternalCalls == {"putImage", "infer", "putMarkdown"}
Pipeline == <<"putImage", "infer", "putMarkdown">>
\* the external calls request r has issued, in the order it issued them
IssuedCalls(r) ==
    LET IsExternalCall(e) == e[1] = "call" /\ e[2] \in ExternalCalls
        calls == SelectSeq(rq[r].events, IsExternalCall)
    IN  [i \in 1..Len(calls) |-> calls[i][2]]
IsPrefix(a, b) == Len(a) <= Len(b) /\ a = SubSeq(b, 1, Len(a))
Rank(pc) ==
    CASE pc = "Idle" -> 0
      [] pc = "WritingTemp" -> 1
      [] pc = "UploadingImage" -> 2
      [] pc = "Invoking" -> 3
      [] pc = "UploadingMarkdown" -> 4
      [] pc = "Unlinking" -> 5
      [] pc = "Done" -> 6

ForwardOnly(r) ==
    LET ev == rq[r].events
    IN  \* image upload, inference, markdown upload, each at most once, in order
        /\ IsPrefix(IssuedCalls(r), Pipeline)
        \* a later call is issued only after the earlier one returned successfully
        /\ \A i \in 1..Len(ev) :
             /\ ev[i] = <<"call", "infer">> =>
                  \E j \in 1..(i - 1) : ev[j] = <<"ok", "putImage">>
             /\ ev[i] = <<"call", "putMarkdown">> =>
                  \E j \in 1..(i - 1) : ev[j] = <<"ok", "infer">>
        \* the first error ends the request: nothing is issued after it
        /\ \A i \in 1..Len(ev) :
             ev[i][1] = "throw" =>
                 /\ i = Len(ev)
                 /\ Done(r)
                 /\ IsFailure(rq[r].res, 500)
        \* exactly one response, sent when the request ends
        /\ rq[r].sent <= 1
        /\ Done(r) <=> rq[r].sent = 1
        /\ Done(r) <=> rq[r].res.status # 0

ForwardStep(r) ==
    /\ Rank(rq'[r].pc) >= Rank(rq[r].pc)
    /\ rq'[r] # rq[r] => Rank(rq'[r].pc) > Rank(rq[r].pc)
    /\ Done(r) => rq'[r] = rq[r]

\* C8: within a request the external calls are issued only in the order image
\* upload, inference call, markdown upload, each at most once and each only
\* after the one before returned successfully; after the first error no
\* further call is issued and the request is Done(failure); the request never
\* moves backward and sends exactly one response.
C8_StrictlyForward ==
    /\ [](\A r \in Reqs : ForwardOnly(r))
    /\ [][\A r \in Reqs : ForwardStep(r)]_vars

C8_Witness ==
    \E r \in Reqs :
        /\ Done(r) /\ Threw(r, "infer") /\ IssuedCalls(r) = <<"putImage", "infer">>
        /\ \E p \in Reqs : Done(p) /\ IssuedCalls(p) = Pipeline /\ rq[p].res.success

InFlight(r) == rq[r].pc \notin {"Idle", "Done"}

\* C9: two in-flight requests never share a temp path, also when they upload
\* the same file name in the same millisecond, and the inference call of a
\* request reads the file that request staged, whatever the other request does.
C9_NoTempInterference ==
    /\ \A r1, r2 \in Reqs :
         (r1 # r2 /\ InFlight(r1) /\ InFlight(r2)
            /\ Has(r1, <<"ok", "writeFile">>) /\ Has(r2, <<"ok", "writeFile">>)) =>
             rq[r1].tempPath # rq[r2].tempPath
    /\ \A r \in Reqs : rq[r].ocrRead \in {0, r}

\* C10: for every original file name the markdown key differs from the image
\* key and ends in ".md", so the markdown write leaves the image object of the
\* same request in place.
C10_MarkdownKeyDistinct ==
    \A r \in Reqs :
        /\ rq[r].mdKey # <<>> =>
             /\ rq[r].mdKey # rq[r].s3Key
             /\ EndsWith(rq[r].mdKey, MdExt)
        /\ (Done(r) /\ rq[r].res.success) =>
             s3[rq[r].s3Key].body = Bytes(rq[r].file.buffer)

=============================================================================
